---- MODULE Spec2Model ----
(***************************************************************************)
(* Model of the VST2 scan-and-cache code of libs/ardour/vst2_scan.cc:      *)
(* the cache validity check, the cache writer, the scan orchestrator and   *)
(* the probe driver with its shell expansion.                              *)
(*                                                                         *)
(* Spec       the public entry points vst2_scan_and_cache and              *)
(*            vst2_valid_cache_file over a file system drawn by Init       *)
(* CacheSpec  vst2_save_cache_file / touch_cachefile / validity check      *)
(* ProbeSpec  vstfx_instantiate_and_get_info applied to a plugin binary    *)
(*            whose answers are drawn by ProbeInit                         *)
(* SerialSpec VST2Info::state and VST2Info (XMLNode const&) applied to a   *)
(*            descriptor or to a node drawn by SerialInit                  *)
(* ParseSpec  vstfx_parse_vst_state and vstfx_midi_output applied to an    *)
(*            instantiated plugin whose answers are drawn by ParseInit     *)
(* HostSpec   simple_master_callback applied to a query of the plugin      *)
(*            drawn by HostInit                                            *)
(***************************************************************************)
EXTENDS Integers, Sequences, FiniteSets, TLC

\* ---------------------------------------------------------------- bounds
\* latest value of the clock and of any file modification time
MaxTime == 2
\* most entries a shell answers before the code stops asking
MaxEnum == 2
\* largest sub-plugin identifier a shell hands out
MaxId == 1

\* ---------------------------------------------------------------- domains
Paths == {"a.so", "b.so"}

\* what the binary at each path is: a.so is a plain single plugin that loads
\* and instantiates, b.so is a file that cannot be loaded as a plugin
plug == [p \in Paths |-> IF p = "a.so" THEN "plugin" ELSE "broken"]

\* g_stat() fails on a missing file: no modification time
NoMtime == -1

\* the descriptor lists a cache document may carry (VST2Info records by id)
Docs == {<<1>>, <<1, 2>>}

NoFile == [kind |-> "none", mtime |-> 0, doc |-> <<>>]

Max(a, b) == IF a < b THEN b ELSE a

VARIABLES
    now,      \* wall clock
    bin,      \* path -> st_mtime of the plugin binary, NoMtime if missing
    files,    \* cache file name -> [kind, mtime, doc]
    saved,    \* path -> a cache write succeeded and the binary is unchanged since
    call,     \* the last call made and what it did
    penv,     \* the plugin binary under probe: what it answers
    pres,     \* what the probe returned: ok, the infos vector, the trace
    pdone,    \* the probe has run
    fin,      \* the argument a function of the module is applied to
    fout      \* how far the application went and what it returned

vars == <<now, bin, files, saved, call, penv, pres, pdone, fin, fout>>

\* ------------------------------------------------------- cache path resolver
\* the SHA-1 of the path is kept abstract: an injective name per path
vst2_cache_file(path) == "vst/" \o path \o ".v2i"

CacheFiles == {vst2_cache_file(p) : p \in Paths}

\* Glib::file_test (f, FILE_TEST_EXISTS | FILE_TEST_IS_REGULAR): true when
\* any of the tests of the bitfield is true
file_test_exists_or_regular(fs, f) ==
    \/ fs[f].kind # "none"
    \/ fs[f].kind = "file"

\* g_stat (f, &sb) == 0
g_stat_ok(fs, f) == fs[f].kind # "none"

\* ----------------------------------------------------- cache validity checker
\* "" when the cache is missing or stale, the cache file name otherwise
vst2_valid_cache_file(fs, b, path) ==
    LET cache_file == vst2_cache_file(path) IN
    IF ~file_test_exists_or_regular(fs, cache_file) THEN ""
    ELSE IF b[path] # NoMtime /\ g_stat_ok(fs, cache_file)
            /\ b[path] < fs[cache_file].mtime
         THEN cache_file
         ELSE ""

\* --------------------------------------------------------------- cache writer
touch_cachefile(fs, b, path, cache_file) ==
    IF b[path] # NoMtime /\ g_stat_ok(fs, cache_file)
    THEN [fs EXCEPT ![cache_file].mtime = Max(b[path], fs[cache_file].mtime)]
    ELSE fs

\* XMLTree::write: w is what the file system lets happen
\*   "ok"       the document is written
\*   "fail"     nothing is written
\*   "partial"  the file is created or truncated, the document is not complete
\* a directory in place of the file can never be written
XMLTree_write(fs, cache_file, root, t, w) ==
    IF fs[cache_file].kind = "dir" \/ w = "fail"
    THEN [ok |-> FALSE, fs |-> fs]
    ELSE IF w = "partial"
    THEN [ok |-> FALSE,
          fs |-> [fs EXCEPT ![cache_file] = [kind |-> "file", mtime |-> t, doc |-> <<>>]]]
    ELSE [ok |-> TRUE,
          fs |-> [fs EXCEPT ![cache_file] = [kind |-> "file", mtime |-> t, doc |-> root]]]

\* the touch is made whether or not the write succeeded
vst2_save_cache_file_touch_always(fs, b, path, root, t, w) ==
    LET cache_file == vst2_cache_file(path)
        wr == XMLTree_write(fs, cache_file, root, t, w)
    IN  [ret |-> wr.ok, fs |-> touch_cachefile(wr.fs, b, path, cache_file),
         afterWrite |-> wr.fs[cache_file],
         writeOk |-> wr.ok, touched |-> TRUE]

vst2_save_cache_file(fs, b, path, root, t, w) ==
    LET cache_file == vst2_cache_file(path)
        wr == XMLTree_write(fs, cache_file, root, t, w)
    IN  IF ~wr.ok
        THEN [ret |-> FALSE, fs |-> wr.fs, afterWrite |-> wr.fs[cache_file],
              writeOk |-> FALSE, touched |-> FALSE]
        ELSE [ret |-> TRUE, fs |-> touch_cachefile(wr.fs, b, path, cache_file),
              afterWrite |-> wr.fs[cache_file],
              writeOk |-> TRUE, touched |-> TRUE]

\* ------------------------------------------------------------------- probing
\* the probe of discover_vst2 is compiled out: no load, no instantiate, the
\* result list is left empty and the answer is "not ok"
discover_vst2(path, kind) ==
    [ok |-> FALSE, rv |-> <<>>, loads |-> 0, threw |-> FALSE]

\* ---------------------------------------------------------- scan orchestrator
\* the result of the probe is not looked at before the document is saved
vst2_scan_and_cache_unchecked(fs, b, path, kind, cbThrows, t, w) ==
    LET d == discover_vst2(path, kind)
        s == vst2_save_cache_file(fs, b, path, d.rv, t, w)
    IN  [ret |-> s.ret, fs |-> s.fs, probes |-> d.loads, cbs |-> Len(d.rv),
         cbLog |-> [i \in 1..Len(d.rv) |-> <<path, d.rv[i]>>], root |-> d.rv,
         probeOk |-> d.ok, found |-> Len(d.rv),
         rootDeleted |-> FALSE, caught |-> FALSE,
         afterWrite |-> s.afterWrite, writeOk |-> s.writeOk,
         touched |-> s.touched]

\* the caller is notified of the path before the result of the probe is
\* looked at
vst2_scan_and_cache_notify_first(fs, b, path, kind, cbThrows, t, w) ==
    LET d == discover_vst2(path, kind)
    IN  [ret |-> FALSE, fs |-> fs, probes |-> d.loads, cbs |-> 1,
         cbLog |-> <<<<path, 0>>>>, root |-> <<>>,
         probeOk |-> d.ok, found |-> Len(d.rv),
         rootDeleted |-> TRUE, caught |-> d.threw,
         afterWrite |-> NoFile, writeOk |-> FALSE, touched |-> FALSE]

\* cbThrows: the caller's notification callback raises when invoked
\* cbLog: the (path, descriptor) pairs the callback was invoked with
\* root: the child records of the document, in the order they were added
vst2_scan_and_cache(fs, b, path, kind, cbThrows, t, w) ==
    LET d == discover_vst2(path, kind)
        failure == [ret |-> FALSE, fs |-> fs, probes |-> d.loads, cbs |-> 0,
                    cbLog |-> <<>>, root |-> <<>>,
                    probeOk |-> d.ok, found |-> Len(d.rv),
                    rootDeleted |-> TRUE, caught |-> d.threw,
                    afterWrite |-> NoFile, writeOk |-> FALSE, touched |-> FALSE]
    IN  IF d.threw THEN failure
        ELSE IF ~d.ok THEN failure
        ELSE IF d.rv = <<>> THEN failure
        ELSE IF cbThrows
        THEN [failure EXCEPT !.cbs = 1, !.cbLog = <<<<path, d.rv[1]>>>>, !.caught = TRUE]
        ELSE LET s == vst2_save_cache_file(fs, b, path, d.rv, t, w)
             IN  [ret |-> s.ret, fs |-> s.fs, probes |-> d.loads, cbs |-> Len(d.rv),
                  cbLog |-> [i \in 1..Len(d.rv) |-> <<path, d.rv[i]>>], root |-> d.rv,
                  probeOk |-> d.ok, found |-> Len(d.rv),
                  rootDeleted |-> FALSE, caught |-> FALSE,
                  afterWrite |-> s.afterWrite, writeOk |-> s.writeOk,
                  touched |-> s.touched]

\* ------------------------------------------------------------- probe driver
\* What one load of the binary does, the k-th load of a probe being the
\* (k-1)-th sub-plugin probed:
\*   "noload"   the loader returns no handle
\*   "noinst"   the handle loads, instantiation returns no state
\*   "noparse"  vstfx_parse_vst_state returns 0 (malloc fails)
\*   "ok"       a descriptor with the given name and category is extracted
Untouched == "<untouched>"
SelfNames == {"", "Self"}
Categories == {"Effect", "Shell"}
Failures == {"noload", "noinst", "noparse"}

\* the answers of a plugin that matter to the probe only through its name
\* and category: no product string, no vendor, version 2, no MIDI
Quiet == [product |-> "", vendor |-> Untouched, module |-> "mod", version |-> 2,
          synth |-> FALSE, recv |-> <<0, 0, 0>>, send |-> <<0, 0, 0>>]

InstBehaviours ==
    {r @@ Quiet : r \in [outcome : Failures, name : {""}, cat : {"Effect"}]
                        \cup [outcome : {"ok"}, name : SelfNames, cat : Categories]}

\* a shell's answer to effShellGetNextPlugin: the identifier it returns and
\* what it puts in the name buffer (Untouched: it leaves the buffer alone)
EnumNames == {Untouched, "", "CompA"}
EnumAnswers == [id : 0..MaxId, name : EnumNames]

RECURSIVE SeqsUpTo(_, _)
SeqsUpTo(S, n) ==
    IF n = 0 THEN {<<>>}
    ELSE LET shorter == SeqsUpTo(S, n - 1)
         IN  shorter \cup {Append(q, x) : q \in {r \in shorter : Len(r) = n - 1}, x \in S}

\* once its answers are used up the shell answers 0 and leaves the buffer alone
Terminator == [id |-> 0, name |-> Untouched]

ProbeEnvs == [insts : [1..(MaxEnum + 1) -> InstBehaviours],
              stream : SeqsUpTo(EnumAnswers, MaxEnum)]

NoLoad == [outcome |-> "noload", name |-> "", cat |-> "Effect"] @@ Quiet

NoEnv == [insts |-> [k \in 1..(MaxEnum + 1) |-> NoLoad],
          stream |-> <<>>]

\* handle->plugincnt as seen by vstfx_info_from_plugin: 1 for the instance
\* made by the outermost call, not 1 for an instance made while re-probing
\* the contents of a shell
plugincnt(inShell) == IF inShell THEN 2 ELSE 1

\* a dispatcher call that hands the plugin a text buffer: the plugin writes
\* its answer into it or leaves it as it was
dispatcher_text(buf, answer) == IF answer = Untouched THEN buf ELSE answer

\* lines 61-75: the synth flag, then the three receive queries, each asked
\* only if nothing before it held
vstfx_midi_input(b) ==
    IF b.synth THEN [ret |-> TRUE, queries |-> <<>>]
    ELSE IF b.recv[1] > 0 THEN [ret |-> TRUE, queries |-> <<"receiveVstEvents">>]
    ELSE IF b.recv[2] > 0
    THEN [ret |-> TRUE, queries |-> <<"receiveVstEvents", "receiveVstMidiEvent">>]
    ELSE [ret |-> b.recv[3] > 0,
          queries |-> <<"receiveVstEvents", "receiveVstMidiEvent", "receiveVstMidiEvents">>]

\* the answers of an instantiated plugin to the queries of
\* vstfx_parse_vst_state
PluginAnswers ==
    [outcome : {"ok"}, name : {Untouched, "", "Self"},
     product : {Untouched, "", "Prod"}, vendor : {Untouched, "", "Vendor"},
     module : {"mod"}, cat : Categories, version : {1, 2, 3}, synth : BOOLEAN,
     recv : {<<0, 0, 0>>, <<0, 1, 0>>}, send : [1..3 -> {-1, 0, 1}]]

\* the version test is left out
vstfx_midi_output_any_version(b) ==
    LET v == <<"effGetVstVersion">> IN
    IF b.send[1] > 0 THEN [ret |-> TRUE, queries |-> v \o <<"sendVstEvents">>]
    ELSE IF b.send[2] > 0
    THEN [ret |-> TRUE, queries |-> v \o <<"sendVstEvents", "sendVstMidiEvent">>]
    ELSE [ret |-> b.send[3] > 0,
          queries |-> v \o <<"sendVstEvents", "sendVstMidiEvent", "sendVstMidiEvents">>]

\* lines 77-95: the version query, then for version 2 and later the three
\* send queries, each asked only if none before it was answered above 0
vstfx_midi_output(b) ==
    LET v == <<"effGetVstVersion">> IN
    IF ~(b.version >= 2) THEN [ret |-> FALSE, queries |-> v]
    ELSE IF b.send[1] > 0 THEN [ret |-> TRUE, queries |-> v \o <<"sendVstEvents">>]
    ELSE IF b.send[2] > 0
    THEN [ret |-> TRUE, queries |-> v \o <<"sendVstEvents", "sendVstMidiEvent">>]
    ELSE [ret |-> b.send[3] > 0,
          queries |-> v \o <<"sendVstEvents", "sendVstMidiEvent", "sendVstMidiEvents">>]

\* the product string is asked for whatever the effect name was
vstfx_parse_vst_state_product_first(b, k) ==
    LET name1 == dispatcher_text("", b.name)
        name2 == dispatcher_text(name1, b.product)
        creator == dispatcher_text("Unknown", b.vendor)
        mi == vstfx_midi_input(b)
        mo == vstfx_midi_output(b)
    IN  [name |-> IF name2 = "" THEN b.module ELSE name2,
         creator |-> IF creator = "" THEN "Unknown" ELSE creator,
         Category |-> b.cat,
         wantMidi |-> (IF mi.ret THEN 1 ELSE 0) + (IF mo.ret THEN 2 ELSE 0),
         queries |-> <<"effGetEffectName", "effGetProductString">>
                     \o <<"effGetVendorString", "effGetPlugCategory">>
                     \o mi.queries \o mo.queries,
         inst |-> k]

\* lines 138-237: the descriptor extracted from the k-th instance, whose
\* answers are b, with the dispatcher queries made on the way
vstfx_parse_vst_state(b, k) ==
    LET name1 == dispatcher_text("", b.name)
        name2 == IF name1 = "" THEN dispatcher_text(name1, b.product) ELSE name1
        creator == dispatcher_text("Unknown", b.vendor)
        mi == vstfx_midi_input(b)
        mo == vstfx_midi_output(b)
    IN  [name |-> IF name2 = "" THEN b.module ELSE name2,
         creator |-> IF creator = "" THEN "Unknown" ELSE creator,
         Category |-> b.cat,
         wantMidi |-> (IF mi.ret THEN 1 ELSE 0) + (IF mo.ret THEN 2 ELSE 0),
         queries |-> <<"effGetEffectName">>
                     \o (IF name1 = "" THEN <<"effGetProductString">> ELSE <<>>)
                     \o <<"effGetVendorString", "effGetPlugCategory">>
                     \o mi.queries \o mo.queries,
         inst |-> k]

\* lines 266-270: ask until the shell answers 0; every answer is kept, the
\* terminating one included
RECURSIVE shell_get_ids(_, _)
shell_get_ids(stream, i) ==
    LET a == IF i <= Len(stream) THEN stream[i] ELSE Terminator
        name == IF a.name = Untouched THEN "Unknown" ELSE a.name
    IN  IF a.id = 0 THEN <<[id |-> 0, name |-> name]>>
        ELSE <<[id |-> a.id, name |-> name]>> \o shell_get_ids(stream, i + 1)

Ev(e, k, id) == [ev |-> e, inst |-> k, id |-> id, name |-> ""]

\* the behaviour of the k-th load; a load the binary's description does not
\* reach returns no handle
InstAt(env, k) ==
    IF k \in DOMAIN env.insts THEN env.insts[k]
    ELSE NoLoad

RECURSIVE vstfx_instantiate_and_get_info(_, _, _, _)
RECURSIVE vstfx_info_from_plugin(_, _, _, _)
RECURSIVE reprobe_ids(_, _, _, _)

\* st: [infos, log, loads, cur]  -- the infos vector, the trace of what was
\* done, the number of loads so far, vstfx_current_loading_id
\* the failed-instantiate return leaves the identifier set
vstfx_instantiate_and_get_info_return_early(env, st, uniqueID, inShell) ==
    LET k == st.loads + 1
        b == InstAt(env, k)
        loaded == [st EXCEPT !.loads = k, !.log = Append(@, Ev("load", k, uniqueID))]
    IN  IF b.outcome = "noload"
        THEN [ok |-> FALSE, st |-> [st EXCEPT !.loads = k,
                                             !.log = Append(@, Ev("loadfail", k, uniqueID))]]
        ELSE IF b.outcome = "noinst"
        THEN [ok |-> FALSE,
              st |-> [loaded EXCEPT !.cur = uniqueID,
                         !.log = @ \o <<Ev("setid", k, uniqueID), Ev("instfail", k, uniqueID),
                                        Ev("unload", k, uniqueID)>>]]
        ELSE vstfx_info_from_plugin(env,
                 [loaded EXCEPT !.cur = 0,
                     !.log = @ \o <<Ev("setid", k, uniqueID), Ev("instantiate", k, uniqueID),
                                    Ev("clearid", k, 0)>>],
                 k, inShell)

\* lines 340-407
vstfx_instantiate_and_get_info(env, st, uniqueID, inShell) ==
    LET k == st.loads + 1
        b == InstAt(env, k)
        loaded == [st EXCEPT !.loads = k, !.log = Append(@, Ev("load", k, uniqueID))]
    IN  IF b.outcome = "noload"
        THEN [ok |-> FALSE, st |-> [st EXCEPT !.loads = k,
                                             !.log = Append(@, Ev("loadfail", k, uniqueID))]]
        ELSE IF b.outcome = "noinst"
        THEN [ok |-> FALSE,
              st |-> [loaded EXCEPT !.cur = 0,
                         !.log = @ \o <<Ev("setid", k, uniqueID), Ev("instfail", k, uniqueID),
                                        Ev("unload", k, uniqueID), Ev("clearid", k, 0)>>]]
        ELSE vstfx_info_from_plugin(env,
                 [loaded EXCEPT !.cur = 0,
                     !.log = @ \o <<Ev("setid", k, uniqueID), Ev("instantiate", k, uniqueID),
                                    Ev("clearid", k, 0)>>],
                 k, inShell)

\* the terminating entry is re-probed like the others
reprobe_ids_with_terminator(env, st, ids, i) ==
    IF i > Len(ids) THEN st
    ELSE LET r == vstfx_instantiate_and_get_info(env,
                      [st EXCEPT !.log = Append(@, [Ev("reprobe", st.loads + 1, ids[i].id)
                                                       EXCEPT !.name = ids[i].name])],
                      ids[i].id, TRUE)
             n == Len(r.st.infos)
             renamed == IF ids[i].name = "" THEN "Unknown" ELSE ids[i].name
         IN  IF r.ok
             THEN reprobe_ids(env, [r.st EXCEPT !.infos[n].name = renamed], ids, i + 1)
             ELSE reprobe_ids(env, r.st, ids, i + 1)

\* the enumerated name is copied as it is, empty or not
reprobe_ids_no_fallback(env, st, ids, i) ==
    IF i > Len(ids) THEN st
    ELSE IF ids[i].id = 0 THEN reprobe_ids(env, st, ids, i + 1)
    ELSE LET r == vstfx_instantiate_and_get_info(env,
                      [st EXCEPT !.log = Append(@, [Ev("reprobe", st.loads + 1, ids[i].id)
                                                       EXCEPT !.name = ids[i].name])],
                      ids[i].id, TRUE)
             n == Len(r.st.infos)
         IN  IF r.ok
             THEN reprobe_ids(env, [r.st EXCEPT !.infos[n].name = ids[i].name], ids, i + 1)
             ELSE reprobe_ids(env, r.st, ids, i + 1)

\* lines 293-313: one re-probe per kept identifier, the name of the last
\* descriptor of the vector replaced after each re-probe that succeeds
reprobe_ids(env, st, ids, i) ==
    IF i > Len(ids) THEN st
    ELSE IF ids[i].id = 0 THEN reprobe_ids(env, st, ids, i + 1)
    ELSE LET r == vstfx_instantiate_and_get_info(env,
                      [st EXCEPT !.log = Append(@, [Ev("reprobe", st.loads + 1, ids[i].id)
                                                       EXCEPT !.name = ids[i].name])],
                      ids[i].id, TRUE)
             n == Len(r.st.infos)
             renamed == IF ids[i].name = "" THEN "Unknown" ELSE ids[i].name
         IN  IF r.ok
             THEN reprobe_ids(env, [r.st EXCEPT !.infos[n].name = renamed], ids, i + 1)
             ELSE reprobe_ids(env, r.st, ids, i + 1)

\* a shell is expanded wherever it is met
vstfx_info_from_plugin_any_depth(env, st, k, inShell) ==
    LET b == InstAt(env, k) IN
    IF b.outcome = "noparse"
    THEN [ok |-> FALSE, st |-> [st EXCEPT !.log = Append(@, Ev("parsefail", k, 0))]]
    ELSE LET info == vstfx_parse_vst_state(b, k)
             pushed == [st EXCEPT !.infos = Append(@, info)]
         IN  IF info.Category = "Shell"
             THEN LET ids == shell_get_ids(env.stream, 1)
                      asked == [pushed EXCEPT !.log =
                                  @ \o [j \in 1..Len(ids) |-> Ev("next", k, ids[j].id)]
                                    \o <<Ev("close", k, 0)>>]
                  IN  [ok |-> TRUE, st |-> reprobe_ids(env, asked, ids, 1)]
             ELSE [ok |-> TRUE, st |-> [pushed EXCEPT !.log = Append(@, Ev("close", k, 0))]]

\* the shell is closed after its contents were re-probed
vstfx_info_from_plugin_close_last(env, st, k, inShell) ==
    LET b == InstAt(env, k) IN
    IF b.outcome = "noparse"
    THEN [ok |-> FALSE, st |-> [st EXCEPT !.log = Append(@, Ev("parsefail", k, 0))]]
    ELSE LET info == vstfx_parse_vst_state(b, k)
             pushed == [st EXCEPT !.infos = Append(@, info)]
         IN  IF info.Category = "Shell" /\ plugincnt(inShell) = 1
             THEN LET ids == shell_get_ids(env.stream, 1)
                      asked == [pushed EXCEPT !.log =
                                  @ \o [j \in 1..Len(ids) |-> Ev("next", k, ids[j].id)]]
                      probed == reprobe_ids(env, asked, ids, 1)
                  IN  [ok |-> TRUE, st |-> [probed EXCEPT !.log = Append(@, Ev("close", k, 0))]]
             ELSE [ok |-> TRUE, st |-> [pushed EXCEPT !.log = Append(@, Ev("close", k, 0))]]

\* lines 245-338
vstfx_info_from_plugin(env, st, k, inShell) ==
    LET b == InstAt(env, k) IN
    IF b.outcome = "noparse"
    THEN [ok |-> FALSE, st |-> [st EXCEPT !.log = Append(@, Ev("parsefail", k, 0))]]
    ELSE LET info == vstfx_parse_vst_state(b, k)
             pushed == [st EXCEPT !.infos = Append(@, info)]
         IN  IF info.Category = "Shell" /\ plugincnt(inShell) = 1
             THEN LET ids == shell_get_ids(env.stream, 1)
                      asked == [pushed EXCEPT !.log =
                                  @ \o [j \in 1..Len(ids) |-> Ev("next", k, ids[j].id)]
                                    \o <<Ev("close", k, 0)>>]
                  IN  [ok |-> TRUE, st |-> reprobe_ids(env, asked, ids, 1)]
             ELSE [ok |-> TRUE, st |-> [pushed EXCEPT !.log = Append(@, Ev("close", k, 0))]]

NoResult == [ok |-> FALSE, infos |-> <<>>, log |-> <<>>, loads |-> 0, cur |-> 0]

\* ------------------------------------------------------------ host callback
\* lines 103-114: the capability strings of the probe's host
vstfx_can_do_strings ==
    <<"supplyIdle", "sendVstTimeInfo", "sendVstEvents", "sendVstMidiEvent",
      "receiveVstEvents", "receiveVstMidiEvent", "supportShell", "shellCategory",
      "shellCategorycurID", "sizeWindow">>

\* line 115
vstfx_can_do_string_count == 9

\* the opcodes a plugin sends to the host, one that the callback does not
\* know among them
Opcodes == {"audioMasterVersion", "audioMasterCanDo", "audioMasterCurrentId",
            "audioMasterIdle"}

\* the strings a plugin asks about: those of the list and some that are not
QueryStrings ==
    {vstfx_can_do_strings[i] : i \in DOMAIN vstfx_can_do_strings}
    \cup {"receiveVstMidiEvents", "sendVstMidiEvents", "offline", ""}

\* lines 100-134; cur is vstfx_current_loading_id at the time of the call
simple_master_callback(opcode, ptr, cur) ==
    IF opcode = "audioMasterVersion" THEN 2400
    ELSE IF opcode = "audioMasterCanDo"
    THEN IF \E i \in 0..(vstfx_can_do_string_count - 1) : vstfx_can_do_strings[i + 1] = ptr
         THEN 1
         ELSE 0
    ELSE IF opcode = "audioMasterCurrentId" THEN cur
    ELSE 0

\* ----------------------------------------------------------- cache serializer
NoArg == [kind |-> "none"]
NoOut == [stage |-> "init"]

IntKeys == {"id", "n_inputs", "n_outputs"}
BoolKeys == {"has_midi_input", "can_process_replace", "has_editor"}
StringKeys == {"name", "creator", "category", "version"}
KeySet == IntKeys \cup BoolKeys \cup StringKeys

\* PBD::to_string / PBD::string_to for int32_t and bool, as XMLNode's
\* set_property and get_property use them
IntVals == {-1, 0, 1}
int_to_string(i) == CASE i = -1 -> "-1" [] i = 0 -> "0" [] i = 1 -> "1"
string_to_int(str) ==
    CASE str = "-1" -> [ok |-> TRUE, v |-> -1]
      [] str = "0"  -> [ok |-> TRUE, v |-> 0]
      [] str = "1"  -> [ok |-> TRUE, v |-> 1]
      [] OTHER      -> [ok |-> FALSE, v |-> 0]
bool_to_string(b) == IF b THEN "1" ELSE "0"
string_to_bool(str) ==
    CASE str \in {"1", "y", "yes", "true"}  -> [ok |-> TRUE, v |-> TRUE]
      [] str \in {"0", "n", "no", "false"} -> [ok |-> TRUE, v |-> FALSE]
      [] OTHER                             -> [ok |-> FALSE, v |-> FALSE]

\* XMLNode: a name and its properties
XMLNode(name) == [name |-> name, props |-> [k \in {} |-> ""]]
set_property(node, key, str) ==
    [node EXCEPT !.props = [k \in (DOMAIN @) \cup {key} |-> IF k = key THEN str ELSE @[k]]]
\* get_property (key, value): false when the property is missing or its
\* text does not convert to the type of value, which is then left as it was
get_string(node, key, old) ==
    IF key \in DOMAIN node.props THEN [ok |-> TRUE, v |-> node.props[key]]
    ELSE [ok |-> FALSE, v |-> old]
get_int(node, key, old) ==
    IF key \in DOMAIN node.props /\ string_to_int(node.props[key]).ok
    THEN string_to_int(node.props[key])
    ELSE [ok |-> FALSE, v |-> old]
get_bool(node, key, old) ==
    IF key \in DOMAIN node.props /\ string_to_bool(node.props[key]).ok
    THEN string_to_bool(node.props[key])
    ELSE [ok |-> FALSE, v |-> old]

\* the plugin descriptors of the model
Descs == [id : IntVals, name : {"", "Self"}, creator : {"", "Vendor"},
          category : {"Unknown", "Effect"}, version : {"", "1.0"},
          n_inputs : {0, 1}, n_outputs : {0, 1},
          has_midi_input : BOOLEAN, can_process_replace : BOOLEAN,
          has_editor : BOOLEAN]

\* what the member initializers of the constructor leave before any read
DefaultInfo == [id |-> 0, name |-> "", creator |-> "", category |-> "",
                version |-> "", n_inputs |-> 0, n_outputs |-> 0,
                has_midi_input |-> FALSE, can_process_replace |-> FALSE,
                has_editor |-> FALSE]

\* n_outputs is written under the key of n_inputs
VST2Info_state_same_key(d) ==
    LET n0 == XMLNode("VST2Info")
        n1 == set_property(n0, "id", int_to_string(d.id))
        n2 == set_property(n1, "name", d.name)
        n3 == set_property(n2, "creator", d.creator)
        n4 == set_property(n3, "category", d.category)
        n5 == set_property(n4, "version", d.version)
        n6 == set_property(n5, "n_inputs", int_to_string(d.n_inputs))
        n7 == set_property(n6, "n_inputs", int_to_string(d.n_outputs))
        n8 == set_property(n7, "has_midi_input", bool_to_string(d.has_midi_input))
        n9 == set_property(n8, "can_process_replace", bool_to_string(d.can_process_replace))
    IN  set_property(n9, "has_editor", bool_to_string(d.has_editor))

VST2Info_state(d) ==
    LET n0 == XMLNode("VST2Info")
        n1 == set_property(n0, "id", int_to_string(d.id))
        n2 == set_property(n1, "name", d.name)
        n3 == set_property(n2, "creator", d.creator)
        n4 == set_property(n3, "category", d.category)
        n5 == set_property(n4, "version", d.version)
        n6 == set_property(n5, "n_inputs", int_to_string(d.n_inputs))
        n7 == set_property(n6, "n_outputs", int_to_string(d.n_outputs))
        n8 == set_property(n7, "has_midi_input", bool_to_string(d.has_midi_input))
        n9 == set_property(n8, "can_process_replace", bool_to_string(d.can_process_replace))
    IN  set_property(n9, "has_editor", bool_to_string(d.has_editor))

\* the ten reads of the constructor, each with whether it succeeded
VST2Info_reads(node) ==
    LET z == DefaultInfo IN
    [id |-> get_int(node, "id", z.id),
     name |-> get_string(node, "name", z.name),
     creator |-> get_string(node, "creator", z.creator),
     category |-> get_string(node, "category", z.category),
     version |-> get_string(node, "version", z.version),
     n_inputs |-> get_int(node, "n_inputs", z.n_inputs),
     n_outputs |-> get_int(node, "n_outputs", z.n_outputs),
     has_midi_input |-> get_bool(node, "has_midi_input", z.has_midi_input),
     can_process_replace |-> get_bool(node, "can_process_replace", z.can_process_replace),
     has_editor |-> get_bool(node, "has_editor", z.has_editor)]

\* err is set by the last read alone
VST2Info_from_node_last_read(node) ==
    LET rd == VST2Info_reads(node)
        err == ~rd["has_editor"].ok
    IN  IF node.name # "VST2Info" THEN [ok |-> FALSE, d |-> DefaultInfo]
        ELSE IF err THEN [ok |-> FALSE, d |-> DefaultInfo]
        ELSE [ok |-> TRUE, d |-> [k \in KeySet |-> rd[k].v]]

\* VST2Info (XMLNode const&): ok is FALSE when failed_constructor is thrown,
\* and no descriptor exists then
VST2Info_from_node(node) ==
    LET rd == VST2Info_reads(node)
        err == \E k \in KeySet : ~rd[k].ok
    IN  IF node.name # "VST2Info" THEN [ok |-> FALSE, d |-> DefaultInfo]
        ELSE IF err THEN [ok |-> FALSE, d |-> DefaultInfo]
        ELSE [ok |-> TRUE, d |-> [k \in KeySet |-> rd[k].v]]

\* the nodes a cache file may hand to the constructor: any name, any subset
\* of the keys, each with a text that converts to every type or to none
NodeTexts == {"1", "x"}
Nodes == {[name |-> n, props |-> p] :
            n \in {"VST2Info", "VST2Cache"},
            p \in UNION {[S -> NodeTexts] : S \in SUBSET KeySet}}

\* ------------------------------------------------------------------- actions
NoCall == [n |-> 0, op |-> "none", path |-> "a.so", ret |-> FALSE, valid |-> FALSE,
           probes |-> 0, cbs |-> 0, cbLog |-> <<>>, root |-> <<>>,
           probeOk |-> FALSE, found |-> 0,
           rootDeleted |-> FALSE, caught |-> FALSE,
           afterWrite |-> NoFile, writeOk |-> FALSE, touched |-> FALSE,
           wasValid |-> FALSE]

FileStates ==
    {NoFile}
    \cup [kind : {"dir"}, mtime : 0..MaxTime, doc : {<<>>}]
    \cup [kind : {"file"}, mtime : 0..MaxTime, doc : {<<1>>}]

Init ==
    /\ now = 0
    /\ bin \in [Paths -> (0..MaxTime) \cup {NoMtime}]
    /\ files \in [CacheFiles -> FileStates]
    /\ saved = [p \in Paths |-> FALSE]
    /\ call = NoCall
    /\ penv = NoEnv
    /\ pres = NoResult
    /\ pdone = FALSE
    /\ fin = NoArg
    /\ fout = NoOut

Tick ==
    /\ now < MaxTime
    /\ now' = now + 1
    /\ UNCHANGED <<bin, files, saved, call, penv, pres, pdone, fin, fout>>

\* the binary at a path is installed or replaced; its mtime is whatever the
\* installer sets (archives keep the packager's time)
ModifyBinary(p, t) ==
    /\ bin[p] # t
    /\ bin' = [bin EXCEPT ![p] = t]
    /\ saved' = [saved EXCEPT ![p] = FALSE]
    /\ UNCHANGED <<now, files, call, penv, pres, pdone, fin, fout>>

ValidCacheFile(p) ==
    /\ call' = [NoCall EXCEPT !.n = 1 - call.n, !.op = "valid", !.path = p,
                              !.valid = (vst2_valid_cache_file(files, bin, p) # "")]
    /\ UNCHANGED <<now, bin, files, saved, penv, pres, pdone, fin, fout>>

SaveCacheFile(p, root, w) ==
    LET s == vst2_save_cache_file(files, bin, p, root, now, w) IN
    /\ files' = s.fs
    /\ saved' = [saved EXCEPT ![p] = s.ret]
    /\ call' = [NoCall EXCEPT !.n = 1 - call.n, !.op = "save", !.path = p,
                              !.ret = s.ret, !.afterWrite = s.afterWrite,
                              !.writeOk = s.writeOk, !.touched = s.touched]
    /\ UNCHANGED <<now, bin, penv, pres, pdone, fin, fout>>

ScanAndCache(p, cbThrows, w) ==
    LET s == vst2_scan_and_cache(files, bin, p, plug[p], cbThrows, now, w) IN
    /\ files' = s.fs
    /\ saved' = IF s.fs = files THEN saved ELSE [saved EXCEPT ![p] = s.ret]
    /\ call' = [NoCall EXCEPT !.n = 1 - call.n, !.op = "scan", !.path = p,
                              !.ret = s.ret, !.probes = s.probes, !.cbs = s.cbs,
                              !.cbLog = s.cbLog, !.root = s.root,
                              !.probeOk = s.probeOk, !.found = s.found,
                              !.rootDeleted = s.rootDeleted, !.caught = s.caught,
                              !.afterWrite = s.afterWrite,
                              !.writeOk = s.writeOk, !.touched = s.touched,
                              !.wasValid = (vst2_valid_cache_file(files, bin, p) # "")]
    /\ UNCHANGED <<now, bin, penv, pres, pdone, fin, fout>>

WriteOutcomes == {"ok", "fail", "partial"}

Next ==
    \/ Tick
    \/ \E p \in Paths, t \in 0..MaxTime : ModifyBinary(p, t)
    \/ \E p \in Paths : ValidCacheFile(p)
    \/ \E p \in Paths, cbThrows \in BOOLEAN, w \in WriteOutcomes : ScanAndCache(p, cbThrows, w)

Spec == Init /\ [][Next]_vars

CacheNext ==
    \/ Tick
    \/ \E p \in Paths, t \in 0..MaxTime : ModifyBinary(p, t)
    \/ \E p \in Paths : ValidCacheFile(p)
    \/ \E p \in Paths, root \in Docs, w \in WriteOutcomes : SaveCacheFile(p, root, w)

CacheSpec == Init /\ [][CacheNext]_vars

\* the probe driver applied to one binary, as the probe of discover_vst2
\* calls it: no identifier selected
ProbeInit ==
    /\ now = 0
    /\ bin = [p \in Paths |-> NoMtime]
    /\ files = [f \in CacheFiles |-> NoFile]
    /\ saved = [p \in Paths |-> FALSE]
    /\ call = NoCall
    /\ penv \in ProbeEnvs
    /\ pres = NoResult
    /\ pdone = FALSE
    /\ fin = NoArg
    /\ fout = NoOut

Probe ==
    /\ ~pdone
    /\ LET r == vstfx_instantiate_and_get_info(penv,
                    [infos |-> <<>>, log |-> <<>>, loads |-> 0, cur |-> 0], 0, FALSE)
       IN  pres' = [ok |-> r.ok, infos |-> r.st.infos, log |-> r.st.log,
                    loads |-> r.st.loads, cur |-> r.st.cur]
    /\ pdone' = TRUE
    /\ UNCHANGED <<now, bin, files, saved, call, penv, fin, fout>>

ProbeNext == Probe

ProbeSpec == ProbeInit /\ [][ProbeNext]_vars

\* the serializer applied to a descriptor and the constructor applied to the
\* node it made, or to a node read from a cache file
SerialInit ==
    /\ now = 0
    /\ bin = [p \in Paths |-> NoMtime]
    /\ files = [f \in CacheFiles |-> NoFile]
    /\ saved = [p \in Paths |-> FALSE]
    /\ call = NoCall
    /\ penv = NoEnv
    /\ pres = NoResult
    /\ pdone = FALSE
    /\ fin \in [kind : {"desc"}, d : Descs] \cup [kind : {"node"}, node : Nodes]
    /\ fout = NoOut

Serialize ==
    /\ fin.kind = "desc"
    /\ fout.stage = "init"
    /\ fout' = [stage |-> "node", node |-> VST2Info_state(fin.d)]
    /\ UNCHANGED <<now, bin, files, saved, call, penv, pres, pdone, fin>>

Deserialize ==
    /\ \/ fin.kind = "desc" /\ fout.stage = "node"
       \/ fin.kind = "node" /\ fout.stage = "init"
    /\ LET node == IF fin.kind = "desc" THEN fout.node ELSE fin.node
       IN  fout' = [stage |-> "done", node |-> node, res |-> VST2Info_from_node(node)]
    /\ UNCHANGED <<now, bin, files, saved, call, penv, pres, pdone, fin>>

SerialNext == Serialize \/ Deserialize

SerialSpec == SerialInit /\ [][SerialNext]_vars

\* the parser and the MIDI output test applied to one instantiated plugin
ParseInit ==
    /\ now = 0
    /\ bin = [p \in Paths |-> NoMtime]
    /\ files = [f \in CacheFiles |-> NoFile]
    /\ saved = [p \in Paths |-> FALSE]
    /\ call = NoCall
    /\ penv = NoEnv
    /\ pres = NoResult
    /\ pdone = FALSE
    /\ fin \in [kind : {"plugin"}, a : PluginAnswers]
    /\ fout = NoOut

ParseVstState ==
    /\ fin.kind = "plugin"
    /\ fout.stage = "init"
    /\ fout' = [stage |-> "done", op |-> "parse", info |-> vstfx_parse_vst_state(fin.a, 1)]
    /\ UNCHANGED <<now, bin, files, saved, call, penv, pres, pdone, fin>>

MidiOutput ==
    /\ fin.kind = "plugin"
    /\ fout.stage = "init"
    /\ fout' = [stage |-> "done", op |-> "midi_output", r |-> vstfx_midi_output(fin.a)]
    /\ UNCHANGED <<now, bin, files, saved, call, penv, pres, pdone, fin>>

ParseNext == ParseVstState \/ MidiOutput

ParseSpec == ParseInit /\ [][ParseNext]_vars

\* the host callback applied to one query of a plugin
HostInit ==
    /\ now = 0
    /\ bin = [p \in Paths |-> NoMtime]
    /\ files = [f \in CacheFiles |-> NoFile]
    /\ saved = [p \in Paths |-> FALSE]
    /\ call = NoCall
    /\ penv = NoEnv
    /\ pres = NoResult
    /\ pdone = FALSE
    /\ fin \in [kind : {"query"}, opcode : Opcodes, ptr : QueryStrings, cur : 0..MaxId]
    /\ fout = NoOut

MasterCallback ==
    /\ fin.kind = "query"
    /\ fout.stage = "init"
    /\ fout' = [stage |-> "done", op |-> "callback",
                ret |-> simple_master_callback(fin.opcode, fin.ptr, fin.cur)]
    /\ UNCHANGED <<now, bin, files, saved, call, penv, pres, pdone, fin>>

HostNext == MasterCallback

HostSpec == HostInit /\ [][HostNext]_vars

TypeOK ==
    /\ now \in 0..MaxTime
    /\ bin \in [Paths -> (0..MaxTime) \cup {NoMtime}]
    /\ saved \in [Paths -> BOOLEAN]

\* a new call of the given operation has just been made
Called(op) == call'.op = op /\ call'.n # call.n

\* ------------------------------------------------------------------- claims

\* C1: a scan of a binary that loads and instantiates as one plugin, made
\* while its cache is missing or stale, returns success, has written the
\* cache file of that path, and the file holds at least one plugin record.
C1_MissProbesAndWrites ==
    [][(/\ Called("scan")
        /\ plug[call'.path] = "plugin"
        /\ bin[call'.path] # NoMtime
        /\ vst2_valid_cache_file(files, bin, call'.path) = "")
       => (/\ call'.ret
           /\ call'.writeOk
           /\ files'[vst2_cache_file(call'.path)].kind = "file"
           /\ Len(files'[vst2_cache_file(call'.path)].doc) >= 1)]_vars

\* C2: two consecutive scans of one path, the binary unchanged and its cache
\* file valid, perform exactly one probe in total; the scan that finds the
\* cache valid performs no probe and does not invoke the callback.
C2_TwoScansOneProbe ==
    [][(/\ call.op = "scan"
        /\ Called("scan")
        /\ call'.path = call.path
        /\ files[vst2_cache_file(call.path)].kind = "file"
        /\ vst2_valid_cache_file(files, bin, call.path) # "")
       => (/\ call.probes + call'.probes = 1
           /\ call'.probes = 0
           /\ call'.cbs = 0)]_vars

\* C3: the validity check answers "valid" exactly when the cache file is a
\* regular file and the binary's mtime is not later than the cache file's
\* mtime; equal timestamps count as valid.
C3_ValidIffNotLater ==
    [][Called("valid")
       => (call'.valid <=>
             (/\ files[vst2_cache_file(call'.path)].kind = "file"
              /\ bin[call'.path] # NoMtime
              /\ bin[call'.path] <= files[vst2_cache_file(call'.path)].mtime))]_vars

\* C4: once vst2_save_cache_file has succeeded for a path and the binary has
\* not been modified since, every validity check of that path answers
\* "valid", whatever the binary's mtime is relative to the time of the write.
C4_ValidAfterSave ==
    [][(/\ Called("valid")
        /\ saved[call'.path]
        /\ bin[call'.path] # NoMtime)
       => call'.valid]_vars

\* C5: when the probe reports failure or finds no descriptor, the scan
\* returns failure, leaves every cache file as it was (none created, none
\* modified) and deletes the document it had started.
C5_FailedProbeWritesNothing ==
    [][(/\ Called("scan")
        /\ (~call'.probeOk \/ call'.found = 0))
       => (/\ ~call'.ret
           /\ files' = files
           /\ call'.rootDeleted)]_vars

C5_Witness ==
    /\ call.op = "scan"
    /\ ~call.probeOk
    /\ ~call.ret
    /\ call.rootDeleted
    /\ files[vst2_cache_file(call.path)].kind = "none"

\* C6: when writing the cache document fails, vst2_save_cache_file returns
\* failure and touch_cachefile does not run: the cache file keeps the mtime
\* the failed write left it with.
C6_FailedWriteNoTouch ==
    (call.op = "save" /\ ~call.writeOk)
    => (/\ ~call.ret
        /\ ~call.touched
        /\ files[vst2_cache_file(call.path)] = call.afterWrite)

\* a failed write over a file that touch_cachefile would have moved forward
C6_Witness ==
    /\ call.op = "save"
    /\ ~call.writeOk
    /\ files[vst2_cache_file(call.path)].kind # "none"
    /\ bin[call.path] # NoMtime
    /\ bin[call.path] > files[vst2_cache_file(call.path)].mtime
\* ---- probe driver

\* the identifiers the shell under probe hands out before its first 0
SubIds == SelectSeq(shell_get_ids(penv.stream, 1), LAMBDA a : a.id # 0)

\* the outermost instance is a shell and is expanded
OuterIsShell ==
    /\ pdone
    /\ penv.insts[1].outcome = "ok"
    /\ penv.insts[1].cat = "Shell"

Reprobes == {i \in DOMAIN pres.log : pres.log[i].ev = "reprobe"}

\* C8: a shell that enumerates N non-zero identifiers and then 0, every
\* sub-plugin loading and instantiating, leaves exactly N descriptors in the
\* list: one per sub-plugin and none for the outer shell instance.
C8_ShellYieldsN ==
    (/\ OuterIsShell
     /\ Len(SubIds) >= 1
     /\ \A k \in 2..(Len(SubIds) + 1) : penv.insts[k].outcome = "ok")
    => (/\ Len(pres.infos) = Len(SubIds)
        /\ \A i \in DOMAIN pres.infos : pres.infos[i].inst # 1)

\* C9: the re-probe pass never calls vstfx_instantiate_and_get_info with
\* identifier 0, and the shell is not asked again once it has answered 0.
C9_NeverProbesZero ==
    pdone =>
      /\ \A i \in Reprobes : pres.log[i].id # 0
      /\ \A i \in DOMAIN pres.log :
            (pres.log[i].ev = "setid" /\ pres.log[i].inst > 1) => pres.log[i].id # 0
      /\ \A i, j \in DOMAIN pres.log :
            (pres.log[i].ev = "next" /\ pres.log[j].ev = "next" /\ i < j)
            => pres.log[i].id # 0

\* a shell that answers 0 while it still has a non-zero entry to give, and
\* whose first entry was re-probed
C9_Witness ==
    /\ OuterIsShell
    /\ Len(penv.stream) = MaxEnum
    /\ penv.stream[1].id # 0
    /\ penv.stream[2].id = 0
    /\ Cardinality(Reprobes) = 1
    /\ Len(pres.infos) = 2

Renamed(name) == IF name = "" THEN "Unknown" ELSE name

Loaded == {pres.log[i].inst : i \in {j \in DOMAIN pres.log : pres.log[j].ev = "load"}}

Releases(k) ==
    {i \in DOMAIN pres.log : pres.log[i].inst = k /\ pres.log[i].ev \in {"unload", "close"}}

\* C11: every load that succeeds is released exactly once by the time the
\* probe returns -- unloaded after a failed instantiate, closed otherwise --
\* on every exit path, descriptor extraction failure included.
C11_ReleasedExactlyOnce ==
    pdone => \A k \in Loaded : Cardinality(Releases(k)) = 1
C13_RoundTrip ==
    (fin.kind = "desc" /\ fout.stage = "done")
    => (/\ fout.res.ok
        /\ \A k \in KeySet : fout.res.d[k] = fin.d[k])

C13_Witness ==
    /\ fin.kind = "desc"
    /\ fout.stage = "done"
    /\ fin.d.creator = ""
    /\ fin.d.category = "Unknown"
    /\ fin.d.n_inputs = 0
    /\ fin.d.n_outputs = 1
    /\ fin.d.id = -1
    /\ fout.res.ok

\* the text of a property converts to the type its key is read as
TypeCorrect(node, k) ==
    /\ k \in DOMAIN node.props
    /\ k \in IntKeys => string_to_int(node.props[k]).ok
    /\ k \in BoolKeys => string_to_bool(node.props[k]).ok

\* C14: the constructor fails whenever the node is not named "VST2Info" or
\* one of the ten keys is missing or not type-correct; when it succeeds every
\* field is the converted text of the node's property, none a default.
C14_StrictDeserialize ==
    fout.stage = "done" =>
      /\ (fout.node.name # "VST2Info" \/ \E k \in KeySet : ~TypeCorrect(fout.node, k))
         => ~fout.res.ok
      /\ fout.res.ok
         => /\ fout.node.name = "VST2Info"
            /\ \A k \in KeySet : TypeCorrect(fout.node, k)
            /\ \A k \in StringKeys : fout.res.d[k] = fout.node.props[k]
            /\ \A k \in IntKeys : fout.res.d[k] = string_to_int(fout.node.props[k]).v
            /\ \A k \in BoolKeys : fout.res.d[k] = string_to_bool(fout.node.props[k]).v

\* a node with the right name and nine good properties, the version missing
C14_Witness ==
    /\ fin.kind = "node"
    /\ fout.stage = "done"
    /\ fout.node.name = "VST2Info"
    /\ DOMAIN fout.node.props = KeySet \ {"version"}
    /\ \A k \in KeySet \ {"version"} : fout.node.props[k] = "1"
    /\ ~fout.res.ok
\* ---- descriptor extraction

\* what the host reads in a buffer it had emptied before the query
Answered(answer) == IF answer = Untouched THEN "" ELSE answer

Asked(queries, q) == \E i \in DOMAIN queries : queries[i] = q

\* C15: the descriptor name is the effect-name answer if non-empty, else the
\* product-string answer if non-empty, else the module name; the product
\* string is asked for only when the effect-name answer is empty; a buffer
\* left untouched counts as the empty answer.
C15_NameFallback ==
    (fout.stage = "done" /\ fout.op = "parse") =>
      LET eff == Answered(fin.a.name)
          prod == Answered(fin.a.product)
      IN  /\ fout.info.name = IF eff # "" THEN eff
                              ELSE IF prod # "" THEN prod
                              ELSE fin.a.module
          /\ Asked(fout.info.queries, "effGetProductString") => eff = ""

\* the plugin leaves the effect-name buffer alone and answers the product
\* query with the empty string: the module name is used
C15_Witness ==
    /\ fout.stage = "done"
    /\ fout.op = "parse"
    /\ fin.a.name = Untouched
    /\ fin.a.product = ""
    /\ Asked(fout.info.queries, "effGetProductString")
    /\ fout.info.name = fin.a.module
SendQueries == <<"sendVstEvents", "sendVstMidiEvent", "sendVstMidiEvents">>

\* C20: vstfx_midi_output sends none of the three send-side queries to a
\* plugin that reports a version below 2 and returns false for it; for
\* version 2 and later it returns true exactly when one of the queries it
\* sent was answered with a positive value.
C20_MidiOutputVersionGuard ==
    (fout.stage = "done" /\ fout.op = "midi_output") =>
      /\ fin.a.version < 2
         => /\ \A i \in 1..3 : ~Asked(fout.r.queries, SendQueries[i])
            /\ ~fout.r.ret
      /\ fin.a.version >= 2
         => /\ fout.r.ret <=> \E i \in 1..3 : /\ Asked(fout.r.queries, SendQueries[i])
                                               /\ fin.a.send[i] > 0
            /\ fout.r.ret <=> \E i \in 1..3 : fin.a.send[i] > 0

\* a version 1 plugin that would answer all three queries with 1
C20_Witness ==
    /\ fout.stage = "done"
    /\ fout.op = "midi_output"
    /\ fin.a.version = 1
    /\ \A i \in 1..3 : fin.a.send[i] = 1
    /\ fout.r.queries = <<"effGetVstVersion">>
    /\ ~fout.r.ret
\* ---- the identifier being loaded

\* vstfx_current_loading_id just before the i-th event of the probe: what
\* the last assignment before it left, 0 before any assignment
CurAt(i) ==
    LET S == {j \in 1..(i - 1) : j \in DOMAIN pres.log /\ pres.log[j].ev \in {"setid", "clearid"}}
    IN  IF S = {} THEN 0
        ELSE pres.log[CHOOSE j \in S : \A m \in S : m <= j].id

\* C16: vstfx_current_loading_id is the requested identifier only from its
\* assignment before the instantiate call to its clearing after it; it is 0
\* at every other step of the probe and at every return.
C16_LoadingIdCleared ==
    pdone =>
      /\ \A i \in DOMAIN pres.log :
            /\ CurAt(i) # 0
               => pres.log[i].ev \in {"instantiate", "instfail", "unload", "clearid"}
            /\ pres.log[i].ev \in {"instantiate", "instfail"}
               => CurAt(i) = pres.log[i].id
            /\ pres.log[i].ev = "setid"
               => \E j \in DOMAIN pres.log :
                     /\ j > i
                     /\ j <= i + 3
                     /\ pres.log[j].ev = "clearid"
                     /\ pres.log[j].inst = pres.log[i].inst
            /\ pres.log[i].ev \in {"loadfail", "parsefail", "close"} => CurAt(i + 1) = 0
      /\ CurAt(Len(pres.log) + 1) = 0
      /\ pres.cur = 0

\* a sub-plugin with identifier 1 fails to instantiate and another load
\* follows it
C16_Witness ==
    /\ pdone
    /\ \E i \in DOMAIN pres.log :
          /\ pres.log[i].ev = "instfail"
          /\ pres.log[i].id = 1
          /\ CurAt(i) = 1
          /\ \E j \in DOMAIN pres.log : j > i /\ pres.log[j].ev \in {"load", "loadfail"}
\* ---- order of the events of a shell probe

\* the place of the close of the outer instance in the trace, 0 if it is
\* never closed
OuterClose ==
    LET S == {i \in DOMAIN pres.log : pres.log[i].ev = "close" /\ pres.log[i].inst = 1}
    IN  IF S = {} THEN 0 ELSE CHOOSE i \in S : TRUE

\* C17: in the probe of a shell every effShellGetNextPlugin query goes to the
\* outer instance before its close, the close follows the answer 0, nothing
\* is sent to the outer instance after its close, and no sub-plugin is loaded
\* or instantiated before it.
C17_ShellEventOrder ==
    OuterIsShell =>
      /\ Cardinality({i \in DOMAIN pres.log :
                        pres.log[i].ev = "close" /\ pres.log[i].inst = 1}) = 1
      /\ \A i \in DOMAIN pres.log :
            /\ pres.log[i].ev = "next" => (pres.log[i].inst = 1 /\ i < OuterClose)
            /\ pres.log[i].inst = 1 => i <= OuterClose
            /\ pres.log[i].inst > 1 => i > OuterClose
      /\ OuterClose > 1
      /\ pres.log[OuterClose - 1].ev = "next"
      /\ pres.log[OuterClose - 1].id = 0

\* a shell that enumerates a sub-plugin, which is then loaded and instantiated
C17_Witness ==
    /\ OuterIsShell
    /\ Len(SubIds) >= 1
    /\ \E i \in DOMAIN pres.log :
          /\ pres.log[i].ev = "instantiate"
          /\ pres.log[i].inst = 2
          /\ i > OuterClose
    /\ \E i \in DOMAIN pres.log :
          /\ pres.log[i].ev = "next"
          /\ pres.log[i].id = 1
\* ---- depth of the expansion

AllowList == {vstfx_can_do_strings[i] : i \in DOMAIN vstfx_can_do_strings}

\* C21: the host callback answers audioMasterCanDo with 1 for every string
\* of vstfx_can_do_strings and with 0 for every other string.
C21_CanDoAllowList ==
    (fout.stage = "done" /\ fout.op = "callback" /\ fin.opcode = "audioMasterCanDo")
    => fout.ret = IF fin.ptr \in AllowList THEN 1 ELSE 0
====
